---- MODULE Spec2Model ----
(***************************************************************************)
(* Model of izetmolla/docx: the template placeholder locator               *)
(* (ParseTemplatePlaceholders), the replacement engine                     *)
(* (TemplateReplacer.ExecuteTemplate and its helpers) and the part store   *)
(* of Document (files, GetFile, SetFile).                                  *)
(*                                                                         *)
(* A part is a sequence of bytes; a byte is a one-character string, or a   *)
(* two-digit hex string for a byte of a multi-byte UTF-8 character.  The   *)
(* bytes "O" and "C" stand for the tags that open and close the text node  *)
(* of a run (<w:r><w:t> and </w:t></w:r>).  Positions are Go offsets       *)
(* (0-based, half-open), as in the source.                                 *)
(***************************************************************************)
EXTENDS Integers, Sequences, FiniteSets, TLC

VARIABLES files, runParsers, data, templatePlaceholders, iter, pc, err, before, log,
          zipFile, path, headerFiles, footerFiles, mediaFiles, disk, call, ops,
          handles

\* the state of the template engine
engineVars == <<data, templatePlaceholders, iter, pc, log>>

\* the archive the document was opened on, the lists of its parts, the
\* files on disk, the last call made on the document, the number of calls
\* and the handles of the operating system that are open
storeVars ==
    <<zipFile, path, headerFiles, footerFiles, mediaFiles, disk, call, ops, handles>>

vars == <<files, runParsers, data, templatePlaceholders, iter, pc, err, before, log,
          zipFile, path, headerFiles, footerFiles, mediaFiles, disk, call, ops,
          handles>>

----------------------------------------------------------------------------
(* Bounds and names *)

MaxItems == 4
MaxEntries == 3
MaxOps == 2

\* entry names, as the sequences of their characters
DocumentXml == <<"w", "o", "r", "d", "/", "d", "o", "c", "u", "m", "e", "n", "t", ".", "x", "m", "l">>
HeaderXml == <<"w", "o", "r", "d", "/", "h", "e", "a", "d", "e", "r", "1", ".", "x", "m", "l">>
FooterXml == <<"w", "o", "r", "d", "/", "f", "o", "o", "t", "e", "r", "2", ".", "x", "m", "l">>
MediaPng == <<"w", "o", "r", "d", "/", "m", "e", "d", "i", "a", "/", "i", ".", "p", "n", "g">>
StylesXml == <<"w", "o", "r", "d", "/", "s", "t", "y", "l", "e", "s", ".", "x", "m", "l">>
HeaderCopy == <<"o", "l", "d", "/", "w", "o", "r", "d", "/", "h", "e", "a", "d", "e", "r", "1", ".", "x", "m", "l">>
MediaInfo == <<"w", "o", "r", "d", "/", "m", "e", "d", "i", "a", "i", "n", "f", "o", ".", "x", "m", "l">>

\* the parts of the document the template engine is run on
FileNames == {DocumentXml, HeaderXml}

----------------------------------------------------------------------------
(* Go slices and strings *)

\* s[i:j]
Slice(s, i, j) == SubSeq(s, i + 1, j)

\* s[i:]
SliceFrom(s, i) == SubSeq(s, i + 1, Len(s))

\* strings.HasPrefix(s[i:], p), i a Go offset
HasPrefixAt(s, i, p) ==
    /\ i + Len(p) <= Len(s)
    /\ \A k \in 1..Len(p) : s[i + k] = p[k]

\* strings.Contains(s, sub)
Contains(s, sub) == \E i \in 0..Len(s) : HasPrefixAt(s, i, sub)

\* copy(dst[off:], src): the bytes of src that fit overwrite dst from off on
CopyAt(dst, off, src) ==
    [k \in 1..Len(dst) |->
        IF k > off /\ k <= off + Len(src) THEN src[k - off] ELSE dst[k]]

RECURSIVE Flatten(_)
Flatten(ss) == IF ss = <<>> THEN <<>> ELSE Head(ss) \o Flatten(Tail(ss))

----------------------------------------------------------------------------
(* []rune(text): UTF-8 decoding.  c3 leads a two-byte character, e2 a      *)
(* three-byte one; e2 80 9c is U+201C and e2 80 9d is U+201D.  A byte that *)
(* does not start a well-formed character decodes to U+FFFD on its own.    *)

ContBytes == {"80", "9c", "9d", "a9"}
LeadBytes == {"c3", "e2"}

RECURSIVE Runes(_)
Runes(text) ==
    IF text = <<>> THEN <<>>
    ELSE LET n == Len(text)
             b == text[1]
         IN  IF b = "c3" /\ n >= 2 /\ text[2] \in ContBytes
             THEN <<"U+00xx">> \o Runes(SubSeq(text, 3, n))
             ELSE IF b = "e2" /\ n >= 3 /\ text[2] \in ContBytes /\ text[3] \in ContBytes
             THEN << IF text[2] = "80" /\ text[3] = "9c" THEN "U+201C"
                     ELSE IF text[2] = "80" /\ text[3] = "9d" THEN "U+201D"
                     ELSE "U+xxxx" >> \o Runes(SubSeq(text, 4, n))
             ELSE IF b \in LeadBytes \cup ContBytes
             THEN <<"U+FFFD">> \o Runes(Tail(text))
             ELSE <<b>> \o Runes(Tail(text))

\* the Go offsets 0..n-2 in ascending order
Offsets(n) == [k \in 1..(IF n >= 1 THEN n - 1 ELSE 0) |-> k - 1]

LeftMarkerAt(runes, i) ==
    \/ runes[i + 1] = "{" /\ runes[i + 2] = "{"
    \/ runes[i + 1] = "U+201C" /\ runes[i + 2] = "U+201C"

RightMarkerAt(runes, i) ==
    \/ runes[i + 1] = "}" /\ runes[i + 2] = "}"
    \/ runes[i + 1] = "U+201D" /\ runes[i + 2] = "U+201D"

StartsOf(runes) == SelectSeq(Offsets(Len(runes)), LAMBDA i : LeftMarkerAt(runes, i))

EndsOf(runes) == SelectSeq(Offsets(Len(runes)), LAMBDA i : RightMarkerAt(runes, i))

findTemplateStarts(text) == StartsOf(Runes(text))

findTemplateEnds(text) == EndsOf(Runes(text))

----------------------------------------------------------------------------
(* Runs.  The run parser is not part of the sources at hand; it is         *)
(* modelled from the specification (section 4.1): it returns, in document  *)
(* order, one Run per run element, with the boundaries of its text node.   *)

Position(start, end) == [Start |-> start, End |-> end]

\* offset of the first byte b at or after offset i, or -1
RECURSIVE IndexFrom(_, _, _)
IndexFrom(bytes, i, b) ==
    IF i >= Len(bytes) THEN -1
    ELSE IF bytes[i + 1] = b THEN i
    ELSE IndexFrom(bytes, i + 1, b)

RECURSIVE RunsFrom(_, _)

\* the run whose text node opens at offset o and closes at offset c
RunAt(bytes, o, c) ==
    IF o < 0 \/ c < 0 THEN <<>>
    ELSE << [Text |-> [OpenTag |-> Position(o, o + 1),
                       CloseTag |-> Position(c, c + 1)],
             HasText |-> TRUE] >> \o RunsFrom(bytes, c + 1)

CloseFrom(bytes, o) == IF o < 0 THEN -1 ELSE IndexFrom(bytes, o + 1, "C")

OpenAt(bytes, o) == RunAt(bytes, o, CloseFrom(bytes, o))

RunsFrom(bytes, i) == OpenAt(bytes, IndexFrom(bytes, i, "O"))

\* NewRunParser(data).Execute(); Runs()
NewRunParser(bytes) == RunsFrom(bytes, 0)

\* DocumentRuns.WithText()
WithText(runs) == SelectSeq(runs, LAMBDA r : r.HasText)

\* Run.GetText is out of range when the run lies outside docBytes
GetTextPanics(run, docBytes) ==
    \/ run.Text.CloseTag.Start > Len(docBytes)
    \/ run.Text.OpenTag.End > run.Text.CloseTag.Start

\* Run.GetText(docBytes): the bytes between the text node's tags
GetText(run, docBytes) ==
    Slice(docBytes, run.Text.OpenTag.End, run.Text.CloseTag.Start)

----------------------------------------------------------------------------
(* Placeholders *)

\* Placeholder.StartPos()
StartPos(p) ==
    p.Fragments[1].Run.Text.OpenTag.End + p.Fragments[1].Position.Start

\* Placeholder.EndPos()
EndPos(p) ==
    LET end == Len(p.Fragments)
    IN  p.Fragments[end].Run.Text.OpenTag.End + p.Fragments[end].Position.End

\* One iteration of the loop "for i, start := range templateStarts" for the
\* pair (start, end): runText[start : end+2] and templateContent[2 : len-2]
\* are out of range when the pair is shorter than the two markers.
PairPanics(start, end) == start > end + 2 \/ (end + 2) - start < 4

MakeTemplatePlaceholder(run, runText, start, end, fileName) ==
    LET templateContent == Slice(runText, start, end + 2)
        fragment == [Position |-> Position(start, end + 2), Run |-> run]
    IN  [Placeholder |-> [Fragments |-> <<fragment>>],
         FileName |-> fileName,
         TemplateContent |-> templateContent,
         Key |-> Slice(templateContent, 2, Len(templateContent) - 2)]

\* the i-th start is matched with the i-th end, while there is one
MatchedPairs(templateStarts, templateEnds) ==
    [i \in 1..(IF Len(templateStarts) <= Len(templateEnds)
               THEN Len(templateStarts) ELSE Len(templateEnds)) |->
        <<templateStarts[i], templateEnds[i]>>]

\* the loop "for i, start := range templateStarts" over the matched pairs
PairsPlaceholders(run, runText, pairs, fileName) ==
    IF \E i \in 1..Len(pairs) : PairPanics(pairs[i][1], pairs[i][2])
    THEN [panic |-> TRUE, list |-> <<>>]
    ELSE [panic |-> FALSE,
          list |-> [i \in 1..Len(pairs) |->
              MakeTemplatePlaceholder(run, runText, pairs[i][1], pairs[i][2], fileName)]]

\* the body of "for _, run := range runs.WithText()" for the text of one run
TextPlaceholders(run, runText, fileName) ==
    PairsPlaceholders(run, runText,
        MatchedPairs(findTemplateStarts(runText), findTemplateEnds(runText)),
        fileName)

RunPlaceholders(run, docBytes, fileName) ==
    IF GetTextPanics(run, docBytes) THEN [panic |-> TRUE, list |-> <<>>]
    ELSE TextPlaceholders(run, GetText(run, docBytes), fileName)

\* the placeholders of one run followed by those of the runs after it
Joined(here, rest) ==
    IF here.panic \/ rest.panic THEN [panic |-> TRUE, list |-> <<>>]
    ELSE [panic |-> FALSE, list |-> here.list \o rest.list]

RECURSIVE ParseRunsFrom(_, _, _, _)
ParseRunsFrom(runs, k, docBytes, fileName) ==
    IF k > Len(runs) THEN [panic |-> FALSE, list |-> <<>>]
    ELSE Joined(RunPlaceholders(runs[k], docBytes, fileName),
                ParseRunsFrom(runs, k + 1, docBytes, fileName))

\* ParseTemplatePlaceholders(runs, docBytes, fileName): the placeholders, or
\* panic = TRUE when a slice expression is out of range
ParseTemplatePlaceholders(runs, docBytes, fileName) ==
    ParseRunsFrom(WithText(runs), 1, docBytes, fileName)

----------------------------------------------------------------------------
(* The context (TemplateData): nil, or a map[string]interface{} from keys   *)
(* to values; a value is a string, [str |-> bytes], or a map of the same   *)
(* kind, [sub |-> map].                                                    *)

KeyA == <<"a">>
KeyB == <<"b">>
KeyN == <<"n">>
KeyU == <<"u">>
ValueA == <<"A">>
ValueB == <<"B", "B", "B", "B", "B", "B", "B", "B">>
ValueN == <<"N">>

\* a: "A", b: "BBBBBBBB", u: map[string]interface{}{n: "N"}
MapOf(keys) ==
    [k \in keys |->
        IF k = KeyA THEN [str |-> ValueA]
        ELSE IF k = KeyB THEN [str |-> ValueB]
        ELSE [sub |-> [n \in {KeyN} |-> [str |-> ValueN]]]]

Nil == [nil |-> TRUE, map |-> MapOf({})]
Context(keys) == [nil |-> FALSE, map |-> MapOf(keys)]

Contexts ==
    {Nil, Context({}), Context({KeyA}), Context({KeyA, KeyB}), Context({KeyA, KeyU})}

NoValue == <<"<", "n", "o", " ", "v", "a", "l", "u", "e", ">">>

----------------------------------------------------------------------------
(* hasMissingFields: the matches of the pattern \{\{\.([^}]+)\}\} are      *)
(* found left to right without overlap; a match at offset p is "{{.", then *)
(* the bytes up to the next "}", at least one, then "}}".                  *)

RECURSIVE FieldMatches(_, _)

\* the match at offset p, if the first "}" after "{{." is at offset q
MatchAt(content, p, q) ==
    IF q > p + 3 /\ HasPrefixAt(content, q, <<"}", "}">>)
    THEN <<Slice(content, p + 3, q)>> \o FieldMatches(content, q + 2)
    ELSE FieldMatches(content, p + 1)

\* FindAllStringSubmatch(templateContent, -1), from offset p: the field names
FieldMatches(content, p) ==
    IF p + 3 > Len(content) THEN <<>>
    ELSE IF HasPrefixAt(content, p, <<"{", "{", ".">>)
    THEN MatchAt(content, p, IndexFrom(content, p + 3, "}"))
    ELSE FieldMatches(content, p + 1)

\* fieldExists, for a map context
fieldExists(fieldName, d) == ~d.nil /\ fieldName \in DOMAIN d.map

AnyMissing(matches, d) == \E m \in 1..Len(matches) : ~fieldExists(matches[m], d)

hasMissingFields(templateContent, d) ==
    d.nil \/ AnyMissing(FieldMatches(templateContent, 0), d)

----------------------------------------------------------------------------
(* text/template, for the expressions the parts can hold: text, {{.}} and  *)
(* field chains {{.f.g}}, with spaces around the operand.  Every other     *)
(* action is an error (a character that starts no token, an identifier     *)
(* that names no function, an empty or an unclosed action, a second        *)
(* operand given to a field).                                              *)

AlphaNumeric == {"a", "b", "x", "A", "B", "m", "p", "n", "o", "v", "l", "u", "e"}

\* the number of bytes of the letter or digit at offset i, or 0
LetterAt(c, i) ==
    IF i >= Len(c) THEN 0
    ELSE IF c[i + 1] \in AlphaNumeric THEN 1
    ELSE IF c[i + 1] = "c3" /\ i + 2 <= Len(c) /\ c[i + 2] \in ContBytes THEN 2
    ELSE 0

RECURSIVE SkipLetters(_, _)
SkipLetters(c, i) ==
    IF LetterAt(c, i) = 0 THEN i ELSE SkipLetters(c, i + LetterAt(c, i))

RECURSIVE SkipSpaces(_, _)
SkipSpaces(c, i) ==
    IF i < Len(c) /\ c[i + 1] = " " THEN SkipSpaces(c, i + 1) ELSE i

RightDelimAt(c, i) == HasPrefixAt(c, i, <<"}", "}">>)

\* lexer.atTerminator
AtTerminator(c, i) ==
    \/ i >= Len(c)
    \/ c[i + 1] \in {" ", ".", ",", "|", ":", ")", "("}
    \/ RightDelimAt(c, i)

ParseError == [ok |-> FALSE, nodes |-> <<>>, next |-> 0]

RECURSIVE LexChain(_, _, _)

\* the field c[i+1 : j] that starts at the "." at offset i, and the chain
\* it continues
FieldAt(c, i, j, chain) ==
    IF j = i + 1 \/ ~AtTerminator(c, j) THEN ParseError
    ELSE LexChain(c, j, Append(chain, Slice(c, i + 1, j)))

\* the fields .f.g... from offset i on
LexChain(c, i, chain) ==
    IF i < Len(c) /\ c[i + 1] = "." /\ ~AtTerminator(c, i + 1)
    THEN FieldAt(c, i, SkipLetters(c, i + 1), chain)
    ELSE [ok |-> TRUE, nodes |-> chain, next |-> i]

FieldNode(chain) ==
    IF ~chain.ok THEN ParseError
    ELSE [ok |-> TRUE, nodes |-> <<[type |-> "field", ident |-> chain.nodes]>>,
          next |-> chain.next]

\* the right delimiter is due at offset r, after the operand
RightDelimAfter(c, operand, r) ==
    IF RightDelimAt(c, r) THEN [ok |-> TRUE, nodes |-> operand.nodes, next |-> r + 2]
    ELSE ParseError

CloseAction(c, operand) ==
    IF ~operand.ok THEN ParseError
    ELSE RightDelimAfter(c, operand, SkipSpaces(c, operand.next))

\* the operand at offset k: "." or a field chain
OperandAt(c, k) ==
    IF k >= Len(c) \/ RightDelimAt(c, k) \/ c[k + 1] # "." THEN ParseError
    ELSE IF AtTerminator(c, k + 1)
    THEN CloseAction(c, [ok |-> TRUE, nodes |-> <<[type |-> "dot"]>>, next |-> k + 1])
    ELSE CloseAction(c, FieldNode(LexChain(c, k, <<>>)))

\* the action whose left delimiter ends at offset i: its node and the
\* offset after its right delimiter
ParseAction(c, i) == OperandAt(c, SkipSpaces(c, i))

\* the offset of the first "{{" at or after offset i, or len(c)
NextLeftDelim(c, i) ==
    CHOOSE q \in i..Len(c) :
        /\ q = Len(c) \/ HasPrefixAt(c, q, <<"{", "{">>)
        /\ \A q2 \in i..(q - 1) : ~HasPrefixAt(c, q2, <<"{", "{">>)

TextNode(c, i, p) ==
    IF p > i THEN << [type |-> "text", text |-> Slice(c, i, p)] >> ELSE <<>>

JoinNodes(text, action, rest) ==
    IF ~rest.ok THEN ParseError
    ELSE [ok |-> TRUE, nodes |-> text \o action.nodes \o rest.nodes, next |-> rest.next]

RECURSIVE TmplParseFrom(_, _)

AfterAction(c, text, action) ==
    IF ~action.ok THEN ParseError
    ELSE JoinNodes(text, action, TmplParseFrom(c, action.next))

\* the text up to the left delimiter at offset p, the action and the rest
TmplParseAt(c, i, p) ==
    IF p = Len(c) THEN [ok |-> TRUE, nodes |-> TextNode(c, i, p), next |-> p]
    ELSE AfterAction(c, TextNode(c, i, p), ParseAction(c, p + 2))

\* Template.Parse(content), from offset i
TmplParseFrom(c, i) == TmplParseAt(c, i, NextLeftDelim(c, i))

TmplParse(content) == TmplParseFrom(content, 0)

\* the keys of m among keys, which are in ascending order
KeysOf(m, keys) == SelectSeq(keys, LAMBDA k : k \in DOMAIN m)

RECURSIVE PrintValue(_)
RECURSIVE PrintEntries(_, _)

\* key:value of the keys given, a space between two
PrintEntries(m, keys) ==
    IF keys = <<>> THEN <<>>
    ELSE Head(keys) \o <<":">> \o PrintValue(m[Head(keys)])
         \o (IF Len(keys) > 1 THEN <<" ">> ELSE <<>>)
         \o PrintEntries(m, Tail(keys))

\* fmt's rendering of a value: a string as it is, a map as map[a:A b:B],
\* keys sorted
PrintValue(v) ==
    IF "str" \in DOMAIN v THEN v.str
    ELSE <<"m", "a", "p", "[">>
         \o PrintEntries(v.sub, KeysOf(v.sub, <<KeyA, KeyB, KeyN, KeyU>>))
         \o <<"]">>

\* evalFieldChain: the fields of ident taken one after the other from the
\* value v; a key a map lacks is written as missing, a field of a string
\* fails with "can't evaluate field"
RECURSIVE EvalChain(_, _, _)
EvalChain(v, ident, missing) ==
    IF ident = <<>> THEN [err |-> FALSE, out |-> PrintValue(v)]
    ELSE IF "str" \in DOMAIN v THEN [err |-> TRUE, out |-> <<>>]
    ELSE IF Head(ident) \notin DOMAIN v.sub THEN [err |-> FALSE, out |-> missing]
    ELSE EvalChain(v.sub[Head(ident)], Tail(ident), missing)

\* an evaluation that writes nothing for a key the map lacks
EvalNodeZero(node, d) ==
    IF node.type = "text" THEN [err |-> FALSE, out |-> node.text]
    ELSE IF node.type = "dot" THEN [err |-> FALSE, out |-> PrintValue([sub |-> d.map])]
    ELSE EvalChain([sub |-> d.map], node.ident, <<>>)

\* the evaluation of one node: what it writes, and whether it fails
EvalNode(node, d) ==
    IF node.type = "text" THEN [err |-> FALSE, out |-> node.text]
    ELSE IF node.type = "dot" THEN [err |-> FALSE, out |-> PrintValue([sub |-> d.map])]
    ELSE EvalChain([sub |-> d.map], node.ident, NoValue)

RECURSIVE TmplExecute(_, _)

ExecRest(first, rest) ==
    IF rest.err THEN rest ELSE [err |-> FALSE, out |-> first.out \o rest.out]

ExecFrom(first, nodes, d) ==
    IF first.err THEN first ELSE ExecRest(first, TmplExecute(Tail(nodes), d))

\* Template.Execute(&buf, data)
TmplExecute(nodes, d) ==
    IF nodes = <<>> THEN [err |-> FALSE, out |-> <<>>]
    ELSE ExecFrom(EvalNode(Head(nodes), d), nodes, d)

----------------------------------------------------------------------------
(* The part store *)

\* Document.GetFile: the bytes, or the nil slice
GetFile(fs, fileName) == IF fileName \in DOMAIN fs THEN fs[fileName] ELSE <<>>

\* GetFile(fileName) == nil
FileIsNil(fs, fileName) == fileName \notin DOMAIN fs

\* a SetFile that registers the name it is given
SetFileAny(fs, fileName, fileBytes) ==
    [ok |-> TRUE,
     files |-> [n \in DOMAIN fs \cup {fileName} |->
                   IF n = fileName THEN fileBytes ELSE fs[n]]]

\* Document.SetFile: ok = FALSE is the "unregistered file" error
SetFile(fs, fileName, fileBytes) ==
    IF fileName \notin DOMAIN fs THEN [ok |-> FALSE, files |-> fs]
    ELSE [ok |-> TRUE, files |-> [fs EXCEPT ![fileName] = fileBytes]]

----------------------------------------------------------------------------
(* Open: the archive is a sequence of entries [Name, Bytes]; the ones whose *)
(* names match are read into the store.  MatchString finds a match         *)
(* anywhere in the name.                                                   *)

Digits == {"0", "1", "2", "3", "4", "5", "6", "7", "8", "9"}

\* stem[0-9]*.xml matches at offset i with k digits: the stem, k digits,
\* any one character, then "xml"
NumberedAt(name, i, stem, k) ==
    /\ HasPrefixAt(name, i, stem)
    /\ i + Len(stem) + k < Len(name)
    /\ \A j \in 1..k : name[i + Len(stem) + j] \in Digits
    /\ HasPrefixAt(name, i + Len(stem) + k + 1, <<"x", "m", "l">>)

\* regexp.MustCompile(stem + `[0-9]*.xml`).MatchString(name)
NumberedMatch(name, stem) ==
    \E i \in 0..Len(name) : \E k \in 0..Len(name) : NumberedAt(name, i, stem, k)

\* HeaderPathRegex.MatchString(name)
HeaderPathRegex(name) ==
    NumberedMatch(name, <<"w", "o", "r", "d", "/", "h", "e", "a", "d", "e", "r">>)

\* FooterPathRegex.MatchString(name)
FooterPathRegex(name) ==
    NumberedMatch(name, <<"w", "o", "r", "d", "/", "f", "o", "o", "t", "e", "r">>)

\* MediaPathRegex.MatchString(name): `word/media/*` is "word/media" and
\* then any number of "/"
MediaPathRegex(name) ==
    Contains(name, <<"w", "o", "r", "d", "/", "m", "e", "d", "i", "a">>)

\* d.files[name] = fileBytes
Put(fs, name, fileBytes) ==
    [n \in DOMAIN fs \cup {name} |-> IF n = name THEN fileBytes ELSE fs[n]]

\* the four tests parseArchive makes of an entry, in their order
AsDocument(file, d) ==
    IF file.Name = DocumentXml
    THEN [d EXCEPT !.files = Put(d.files, DocumentXml, file.Bytes)]
    ELSE d

AsHeader(file, d) ==
    IF HeaderPathRegex(file.Name)
    THEN [d EXCEPT !.files = Put(d.files, file.Name, file.Bytes),
                   !.headerFiles = Append(d.headerFiles, file.Name)]
    ELSE d

AsFooter(file, d) ==
    IF FooterPathRegex(file.Name)
    THEN [d EXCEPT !.files = Put(d.files, file.Name, file.Bytes),
                   !.footerFiles = Append(d.footerFiles, file.Name)]
    ELSE d

AsMedia(file, d) ==
    IF MediaPathRegex(file.Name)
    THEN [d EXCEPT !.files = Put(d.files, file.Name, file.Bytes),
                   !.mediaFiles = Append(d.mediaFiles, file.Name)]
    ELSE d

\* parseArchive, from the entries given on
RECURSIVE parseArchive(_, _)
parseArchive(entries, d) ==
    IF entries = <<>> THEN d
    ELSE parseArchive(Tail(entries),
             AsMedia(Head(entries),
                 AsFooter(Head(entries),
                     AsHeader(Head(entries),
                         AsDocument(Head(entries), d)))))

\* doc := &Document{...}
EmptyDocument ==
    [files |-> [n \in {} |-> <<>>],
     headerFiles |-> <<>>, footerFiles |-> <<>>, mediaFiles |-> <<>>]

\* newDocument from the check for document.xml on: ok = FALSE is the
\* "invalid docx archive" error
Parsed(d) ==
    [ok |-> DocumentXml \in DOMAIN d.files,
     files |-> d.files,
     headerFiles |-> d.headerFiles,
     footerFiles |-> d.footerFiles,
     mediaFiles |-> d.mediaFiles,
     runParsers |-> [n \in DOMAIN d.files |-> NewRunParser(d.files[n])]]

newDocument(entries) == Parsed(parseArchive(entries, EmptyDocument))

\* an isModifiedFile that leaves the document out
isModifiedFileLists(hs, fs, ms, searchFileName) ==
    \E i \in 1..Len(hs \o fs \o ms) : (hs \o fs \o ms)[i] = searchFileName

\* isModifiedFile
isModifiedFile(hs, fs, ms, searchFileName) ==
    \E i \in 1..Len(hs \o fs \o ms \o <<DocumentXml>>) :
        (hs \o fs \o ms \o <<DocumentXml>>)[i] = searchFileName

----------------------------------------------------------------------------
(* The replacement engine *)

\* the copies made into a buffer as long as the part was
SpliceBytesSameLength(docBytes, startPos, endPos, result) ==
    CopyAt(CopyAt(CopyAt(
        [k \in 1..Len(docBytes) |-> "00"],
        0, Slice(docBytes, 0, startPos)),
        startPos, result),
        startPos + Len(result), SliceFrom(docBytes, endPos))

\* the three copies of replacePlaceholder into the buffer made for them
SpliceBytes(docBytes, startPos, endPos, result) ==
    CopyAt(CopyAt(CopyAt(
        [k \in 1..(Len(docBytes) - (endPos - startPos) + Len(result)) |-> "00"],
        0, Slice(docBytes, 0, startPos)),
        startPos, result),
        startPos + Len(result), SliceFrom(docBytes, endPos))

\* "return tr.document.SetFile(placeholder.FileName, newBytes)"
Stored(set) == [kind |-> IF set.ok THEN "replace" ELSE "error", files |-> set.files]

\* replacePlaceholder: docBytes[endPos:] is out of range once the part is
\* shorter than endPos
replacePlaceholder(fs, placeholder, result) ==
    IF FileIsNil(fs, placeholder.FileName) THEN [kind |-> "error", files |-> fs]
    ELSE IF EndPos(placeholder.Placeholder) > Len(GetFile(fs, placeholder.FileName))
    THEN [kind |-> "panic", files |-> fs]
    ELSE Stored(SetFile(fs, placeholder.FileName,
                        SpliceBytes(GetFile(fs, placeholder.FileName),
                                    StartPos(placeholder.Placeholder),
                                    EndPos(placeholder.Placeholder), result)))

\* what becomes of one placeholder:
\*   kind "skip": left as it is (why: "fields", "exec" or "novalue");
\*   kind "replace": spliced; kind "error": an error is returned;
\*   kind "panic": a slice expression out of range.
Outcome(kind, why, result, fs) ==
    [kind |-> kind, why |-> why, result |-> result, files |-> fs]

\* "err = tr.replacePlaceholder(placeholder, result)" and the return
Replaced(result, r) == Outcome(r.kind, "replace", result, r.files)

\* the result written whether or not it holds "<no value>"
WriteResultUnchecked(fs, placeholder, result) ==
    Replaced(result, replacePlaceholder(fs, placeholder, result))

\* processTemplatePlaceholder from "result := buf.String()" on
WriteResult(fs, placeholder, result) ==
    IF Contains(result, NoValue) THEN Outcome("skip", "novalue", result, fs)
    ELSE Replaced(result, replacePlaceholder(fs, placeholder, result))

\* processTemplatePlaceholder from the check of Execute's error on
AfterExecute(fs, placeholder, exec) ==
    IF exec.err THEN Outcome("skip", "exec", <<>>, fs)
    ELSE WriteResult(fs, placeholder, exec.out)

\* the template executed whether or not it was parsed
AfterParseUnchecked(fs, placeholder, d, tmpl) ==
    AfterExecute(fs, placeholder, TmplExecute(tmpl.nodes, d))

\* processTemplatePlaceholder from the check of Parse's error on
AfterParse(fs, placeholder, d, tmpl) ==
    IF ~tmpl.ok THEN Outcome("error", "parse", <<>>, fs)
    ELSE AfterExecute(fs, placeholder, TmplExecute(tmpl.nodes, d))

processTemplatePlaceholder(fs, placeholder, d) ==
    IF hasMissingFields(placeholder.TemplateContent, d)
    THEN Outcome("skip", "fields", <<>>, fs)
    ELSE AfterParse(fs, placeholder, d, TmplParse(placeholder.TemplateContent))

\* the placeholders of some parts followed by those of the parts after them
Both(here, rest) ==
    IF here.panic \/ rest.panic THEN [panic |-> TRUE, list |-> <<>>]
    ELSE [panic |-> FALSE, list |-> here.list \o rest.list]

\* extractTemplatePlaceholders, the parts visited in the given order (the
\* order of a range over the map d.files is not fixed)
RECURSIVE extractTemplatePlaceholders(_, _, _)
extractTemplatePlaceholders(fs, parsers, order) ==
    IF order = <<>> THEN [panic |-> FALSE, list |-> <<>>]
    ELSE Both(ParseTemplatePlaceholders(parsers[Head(order)],
                                        GetFile(fs, Head(order)), Head(order)),
              extractTemplatePlaceholders(fs, parsers, Tail(order)))

\* a loop that takes the placeholders first to last
LoopOrderAscending(n) == [k \in 1..n |-> k - 1]

\* "for i := len(templatePlaceholders) - 1; i >= 0; i--": the values of i,
\* in the order the loop takes them, for a list of n placeholders
LoopOrder(n) == [k \in 1..n |-> n - k]

\* the orders in which a range over the part names can visit them
Orders(names) ==
    {o \in [1..Cardinality(names) -> names] :
        \A x, y \in 1..Cardinality(names) : x # y => o[x] # o[y]}

----------------------------------------------------------------------------
(* The parts a document is opened on *)

TokenA == <<"{", "{", ".", "a", "}", "}">>
TokenB == <<"{", "{", " ", ".", "b", "}", "}">>
EAcute == <<"c3", "a9">>
RunBreak == <<"C", "O">>

Items == {TokenA, TokenB, <<"{">>, <<"}">>, EAcute, RunBreak}

\* a part of one or more runs
PartBytes(items) == <<"O">> \o Flatten(items) \o <<"C">>

ItemSeqs == UNION {[1..n -> Items] : n \in 0..MaxItems}

\* {{.u.n}}, a field of the map that u is
TokenN == <<"{", "{", ".", "u", ".", "n", "}", "}">>

\* U+201C and U+201D in UTF-8
LeftQuote == <<"e2", "80", "9c">>
RightQuote == <<"e2", "80", "9d">>

\* .a between two U+201C and two U+201D
TokenQ == LeftQuote \o LeftQuote \o <<".", "a">> \o RightQuote \o RightQuote

\* the header: "x{{.a}}" in one run, then {{.a}} split over two runs, then
\* {{.u.n}} in one run and the token of the quotation marks in one run
HeaderBytes ==
    <<"O", "x">> \o TokenA \o <<"C", "O", "{", "{", ".", "C", "O", "a", "}", "}", "C">>
    \o <<"O">> \o TokenN \o <<"C", "O">> \o TokenQ \o <<"C">>

----------------------------------------------------------------------------
(* The state machine: Open, then one ExecuteTemplate call, one placeholder *)
(* of the loop at a time.                                                  *)
(*   pc: "open" (no call yet), "loop" (in the loop of ExecuteTemplate),    *)
(*       "returned" (the call returned err), "panicked" (a slice           *)
(*       expression was out of range and the call did not return);         *)
(*   before: the parts as they were when the call began;                   *)
(*   log: one entry per placeholder processed, in the order processed:     *)
(*       its index in templatePlaceholders, what became of it (kind, why), *)
(*       the rendered result and the parts before it was processed.        *)

\* the archive of a template: the document, the styles and the header
TemplateArchive(items) ==
    << [Name |-> DocumentXml, Bytes |-> PartBytes(items)],
       [Name |-> StylesXml, Bytes |-> <<"s">>],
       [Name |-> HeaderXml, Bytes |-> HeaderBytes] >>

\* the paths: "./in.docx" names the file that "in.docx" names
SourcePath == "in.docx"
DottedPath == "./in.docx"
OutputPath == "out.docx"
Paths == {SourcePath, DottedPath, OutputPath}

\* the file a path names
FileOf(p) == IF p = DottedPath THEN SourcePath ELSE p

\* no call was made yet
NoCall ==
    [op |-> "none", name |-> <<>>, bytes |-> <<>>, file |-> "", out |-> <<>>,
     map |-> <<>>, disk |-> <<>>]

\* Open(path) on the archive of the entries: the document newDocument
\* returns, the source file alone on disk
Opened(entries, doc) ==
    /\ doc.ok
    /\ zipFile = entries
    /\ path = SourcePath
    /\ files = doc.files
    /\ headerFiles = doc.headerFiles
    /\ footerFiles = doc.footerFiles
    /\ mediaFiles = doc.mediaFiles
    /\ runParsers = doc.runParsers
    /\ disk = [f \in {SourcePath} |-> entries]
    /\ data = Nil
    /\ templatePlaceholders = <<>>
    /\ iter = 0
    /\ pc = "open"
    /\ err = "none"
    /\ before = doc.files
    /\ log = <<>>
    /\ call = NoCall
    /\ ops = 0
    /\ handles = {"docxFile", "zipReader"}

\* Open on the archive of a template
Init ==
    \E items \in ItemSeqs :
        Opened(TemplateArchive(items), newDocument(TemplateArchive(items)))

\* ExecuteTemplate from the return of extractTemplatePlaceholders on
Extracted(found) ==
    /\ templatePlaceholders' = found.list
    /\ iter' = 0
    /\ pc' = IF found.panic THEN "panicked"
             ELSE IF found.list = <<>> THEN "returned" ELSE "loop"
    /\ err' = "none"

\* ExecuteTemplateWithData(d) up to the loop over the placeholders
Executing(d, order) ==
    /\ data' = d
    /\ before' = files
    /\ log' = <<>>
    /\ UNCHANGED <<files, runParsers>>
    /\ UNCHANGED storeVars
    /\ IF d.nil
       THEN /\ pc' = "returned"
            /\ err' = "template data not set"
            /\ UNCHANGED <<templatePlaceholders, iter>>
       ELSE Extracted(extractTemplatePlaceholders(files, runParsers, order))

\* the one ExecuteTemplateWithData(d) call made on the document
ExecuteTemplate(d, order) == pc = "open" /\ Executing(d, order)

\* the index i of the iteration the loop is at
LoopIndex == LoopOrder(Len(templatePlaceholders))[iter + 1]

\* the effect of one iteration, whose placeholder fared as in done
Processed(done) ==
    /\ files' = done.files
    /\ log' = Append(log, [index |-> LoopIndex, kind |-> done.kind,
                           why |-> done.why, result |-> done.result,
                           pre |-> files])
    /\ iter' = iter + 1
    /\ pc' = IF done.kind = "panic" THEN "panicked"
             ELSE IF done.kind = "error" \/ iter + 1 = Len(templatePlaceholders)
             THEN "returned"
             ELSE "loop"
    /\ err' = IF done.kind = "error" THEN "failed to process template placeholder"
              ELSE "none"

\* one iteration of the loop over the placeholders (iter iterations are
\* done), and the return that ends the loop
ProcessNext ==
    /\ pc = "loop"
    /\ Processed(processTemplatePlaceholder(
                     files, templatePlaceholders[LoopIndex + 1], data))
    /\ UNCHANGED <<runParsers, data, templatePlaceholders, before>>
    /\ UNCHANGED storeVars

Next ==
    \/ \E d \in Contexts, order \in Orders(DOMAIN files) : ExecuteTemplate(d, order)
    \/ ProcessNext

Spec == Init /\ [][Next]_vars

----------------------------------------------------------------------------
(* The store: Open on an archive of up to MaxEntries entries, then up to   *)
(* MaxOps calls of SetFile, Write, WriteToFile and ReplaceAll.             *)
(*   call: the last call made: its name, its arguments, the entries Write  *)
(*         put out, and the files on disk before it;                       *)
(*   before: the parts as they were before the last call;                  *)
(*   disk: for each file on disk, the entries of the archive it holds;     *)
(*   handles: the handles Open acquired that are open: "docxFile" is the   *)
(*         os.File, "zipReader" the file of the zip.ReadCloser.            *)

\* the bytes of the entries, by name: the document holds the tokens {a} and
\* {b}, the header the token {a} split over two runs, the footer {c}, the
\* image {a} between other bytes
BytesOf(name) ==
    IF name = DocumentXml THEN <<"O", "{", "a", "}", "x", "{", "b", "}", "C">>
    ELSE IF name = HeaderXml THEN <<"O", "{", "a", "C", "O", "}", "C">>
    ELSE IF name = FooterXml THEN <<"O", "{", "c", "}", "C">>
    ELSE IF name = MediaPng THEN <<"89", "{", "a", "}", "ff">>
    ELSE <<"s">>

EntryNames ==
    {DocumentXml, HeaderXml, FooterXml, MediaPng, StylesXml, HeaderCopy, MediaInfo}

\* the archives: up to MaxEntries entries of different names, the document
\* among them
Archives ==
    {[i \in 1..Len(names) |-> [Name |-> names[i], Bytes |-> BytesOf(names[i])]] :
        names \in {ns \in UNION {[1..n -> EntryNames] : n \in 1..MaxEntries} :
                      /\ \E i \in 1..Len(ns) : ns[i] = DocumentXml
                      /\ \A i, j \in 1..Len(ns) : i # j => ns[i] # ns[j]}}

StoreInit == \E entries \in Archives : Opened(entries, newDocument(entries))

\* the bytes given to SetFile
NewBytes == {<<"O", "z", "C">>, <<"O", "{", "a", "}", "C">>}

\* the call made, of which out and disk are set by the calls that use them
Call(op, name, fileBytes, file, map) ==
    [op |-> op, name |-> name, bytes |-> fileBytes, file |-> file, out |-> <<>>,
     map |-> map, disk |-> disk]

\* the return of SetFile
SetFileReturned(set) ==
    /\ files' = set.files
    /\ err' = IF set.ok THEN "none" ELSE "unregistered file"

\* d.SetFile(fileName, fileBytes)
SetFileCall(fileName, fileBytes) ==
    /\ ops < MaxOps
    /\ ops' = ops + 1
    /\ before' = files
    /\ call' = Call("SetFile", fileName, fileBytes, "", <<>>)
    /\ SetFileReturned(SetFile(files, fileName, fileBytes))
    /\ UNCHANGED <<runParsers, zipFile, path, headerFiles, footerFiles, mediaFiles, disk,
                   handles>>
    /\ UNCHANGED engineVars

\* strings.ReplaceAll(s, old, new) from offset i on, old not empty
RECURSIVE StringsReplaceAll(_, _, _, _)
StringsReplaceAll(s, i, old, new) ==
    IF i >= Len(s) THEN <<>>
    ELSE IF HasPrefixAt(s, i, old)
    THEN new \o StringsReplaceAll(s, i + Len(old), old, new)
    ELSE <<s[i + 1]>> \o StringsReplaceAll(s, i + 1, old, new)

\* replacePlaceholdersInFile, the keys of the map visited in the given order
RECURSIVE replacePlaceholdersInFile(_, _, _)
replacePlaceholdersInFile(content, replaceMap, order) ==
    IF order = <<>> THEN content
    ELSE replacePlaceholdersInFile(
             StringsReplaceAll(content, 0, <<"{">> \o Head(order) \o <<"}">>,
                               replaceMap[Head(order)]),
             replaceMap, Tail(order))

\* the maps given to ReplaceAll
PlaceholderMaps ==
    {[k \in {} |-> <<>>],
     [k \in {KeyA} |-> <<"X">>],
     [k \in {KeyA, KeyB} |-> IF k = KeyA THEN <<"{", "b", "}">> ELSE <<"Y">>]}

\* sr.ReplaceAll(replaceMap): every part is replaced by what
\* replacePlaceholdersInFile makes of it; the keys of the map are visited in
\* an order of their own for each part
ReplaceAllCall(replaceMap) ==
    /\ ops < MaxOps
    /\ ops' = ops + 1
    /\ before' = files
    /\ call' = Call("ReplaceAll", <<>>, <<>>, "", replaceMap)
    /\ \E orders \in [DOMAIN files -> Orders(DOMAIN replaceMap)] :
          files' = [n \in DOMAIN files |->
                       replacePlaceholdersInFile(files[n], replaceMap, orders[n])]
    /\ err' = "none"
    /\ UNCHANGED <<runParsers, zipFile, path, headerFiles, footerFiles, mediaFiles, disk,
                   handles>>
    /\ UNCHANGED engineVars

\* the entry Write puts out for an entry of the archive: the bytes of the
\* store if the name is one of the modified files, the bytes of the entry
\* if not
WrittenEntry(zf) ==
    [Name |-> zf.Name,
     Bytes |-> IF isModifiedFile(headerFiles, footerFiles, mediaFiles, zf.Name)
               THEN files[zf.Name]
               ELSE zf.Bytes]

\* d.Write(writer), the archive readable: the entries put out
WriteAll == [i \in 1..Len(zipFile) |-> WrittenEntry(zipFile[i])]

\* the number of entries put out before the first that has to be read from
\* the archive
Readable(i) ==
    \A j \in 1..i : isModifiedFile(headerFiles, footerFiles, mediaFiles, zipFile[j].Name)

\* d.Write(writer) once the file of the archive was truncated: the entries
\* put out until one has to be read from the archive, which fails
WriteTruncated ==
    [i \in 1..Cardinality({k \in 1..Len(zipFile) : Readable(k)}) |->
        WrittenEntry(zipFile[i])]

\* d.Write(writer)
WriteCall ==
    /\ ops < MaxOps
    /\ ops' = ops + 1
    /\ before' = files
    /\ call' = [Call("Write", <<>>, <<>>, "", <<>>) EXCEPT !.out = WriteAll]
    /\ err' = "none"
    /\ UNCHANGED <<files, runParsers, zipFile, path, headerFiles, footerFiles, mediaFiles,
                   disk, handles>>
    /\ UNCHANGED engineVars

\* the files on disk once the file named holds the entries
Created(file, entries) ==
    [f \in DOMAIN disk \cup {FileOf(file)} |->
        IF f = FileOf(file) THEN entries ELSE disk[f]]

\* d.WriteToFile(file): os.Create truncates the file the path names, the
\* file of the archive if the path names that one
WriteToFileCall(file) ==
    /\ ops < MaxOps
    /\ ops' = ops + 1
    /\ before' = files
    /\ IF file = path
       THEN /\ err' = "cannot write into the original docx archive"
            /\ call' = Call("WriteToFile", <<>>, <<>>, file, <<>>)
            /\ disk' = disk
       ELSE IF FileOf(file) = FileOf(path)
       THEN /\ err' = IF Len(WriteTruncated) = Len(zipFile) THEN "none"
                      ELSE "unable to open"
            /\ call' = [Call("WriteToFile", <<>>, <<>>, file, <<>>)
                           EXCEPT !.out = WriteTruncated]
            /\ disk' = Created(file, WriteTruncated)
       ELSE /\ err' = "none"
            /\ call' = [Call("WriteToFile", <<>>, <<>>, file, <<>>)
                           EXCEPT !.out = WriteAll]
            /\ disk' = Created(file, WriteAll)
    /\ UNCHANGED <<files, runParsers, zipFile, path, headerFiles, footerFiles, mediaFiles,
                   handles>>
    /\ UNCHANGED engineVars

StoreNext ==
    \/ \E fileName \in {DocumentXml, MediaPng, StylesXml}, fileBytes \in NewBytes :
          SetFileCall(fileName, fileBytes)
    \/ \E replaceMap \in PlaceholderMaps : ReplaceAllCall(replaceMap)
    \/ WriteCall
    \/ \E file \in Paths : WriteToFileCall(file)

StoreSpec == StoreInit /\ [][StoreNext]_vars

----------------------------------------------------------------------------
(* A session: Open on a document, then SetFile and ReplaceAll calls (up to *)
(* MaxOps of them) and ExecuteTemplate calls in any order, each call made  *)
(* when the one before has returned.                                       *)

\* the documents of a session: {{.a}} alone, {{ .b}} in a run before the
\* run of {{.a}}, and the simple token {a} before {{.a}}
SessionTexts ==
    {<<"O">> \o TokenA \o <<"C">>,
     <<"O">> \o TokenB \o <<"C", "O">> \o TokenA \o <<"C">>,
     <<"O", "{", "a", "}">> \o TokenA \o <<"C">>}

\* the archive of a session: the document and the styles
SessionArchive(text) ==
    << [Name |-> DocumentXml, Bytes |-> text],
       [Name |-> StylesXml, Bytes |-> <<"s">>] >>

SessionInit ==
    \E text \in SessionTexts :
        Opened(SessionArchive(text), newDocument(SessionArchive(text)))

\* no call is under way
Idle == pc \in {"open", "returned"}

\* d.SetFile(fileName, fileBytes) between two calls
SessionSetFile(fileName, fileBytes) == Idle /\ SetFileCall(fileName, fileBytes)

\* d.ReplaceAll(replaceMap) between two calls
SessionReplaceAll(replaceMap) == Idle /\ ReplaceAllCall(replaceMap)

\* d.ExecuteTemplate(d), the first call or a later one
SessionExecuteTemplate(d, order) == Idle /\ Executing(d, order)

SessionNext ==
    \/ \E fileBytes \in NewBytes \cup SessionTexts :
          SessionSetFile(DocumentXml, fileBytes)
    \/ \E replaceMap \in PlaceholderMaps : SessionReplaceAll(replaceMap)
    \/ \E d \in Contexts, order \in Orders(DOMAIN files) :
          SessionExecuteTemplate(d, order)
    \/ ProcessNext

SessionSpec == SessionInit /\ [][SessionNext]_vars

----------------------------------------------------------------------------
(* CompleteTemplateToFile(templatePath, data, outputPath): Open, the       *)
(* deferred Close, ExecuteTemplate, WriteToFile.                           *)
(*   pc: "failed" when Open returned an error, "closed" once the deferred  *)
(*       Close has run and the function has returned err.                  *)

\* the items of the documents the function is run on
CompleteItems == {TokenA, TokenB, <<"{">>}

\* a file that is not a zip archive, as one entry without a name
NotAnArchive == << [Name |-> <<>>, Bytes |-> <<"?">>] >>

\* an archive without word/document.xml
NoDocumentArchive == << [Name |-> StylesXml, Bytes |-> <<"s">>] >>

\* the files templatePath can name
TemplateFiles ==
    {TemplateArchive(items) :
        items \in UNION {[1..n -> CompleteItems] : n \in 0..MaxItems}}
    \cup {NotAnArchive, NoDocumentArchive}

\* Open returned the error: no document, the handles named left open
OpenFailed(onDisk, error, open) ==
    /\ zipFile = <<>>
    /\ path = SourcePath
    /\ files = EmptyDocument.files
    /\ headerFiles = <<>>
    /\ footerFiles = <<>>
    /\ mediaFiles = <<>>
    /\ runParsers = EmptyDocument.files
    /\ disk = onDisk
    /\ data = Nil
    /\ templatePlaceholders = <<>>
    /\ iter = 0
    /\ pc = "failed"
    /\ err = error
    /\ before = EmptyDocument.files
    /\ log = <<>>
    /\ call = NoCall
    /\ ops = 0
    /\ handles = open

\* Open(templatePath) on a file that holds the entries: zip.OpenReader
\* fails after os.Open has opened the file, or newDocument fails after both
\* have, or the document is returned
OpenOn(entries) ==
    IF entries = NotAnArchive
    THEN OpenFailed([f \in {SourcePath} |-> entries],
                    "unable to open zip reader", {"docxFile"})
    ELSE IF ~newDocument(entries).ok
    THEN OpenFailed([f \in {SourcePath} |-> entries],
                    "invalid docx archive", {"docxFile", "zipReader"})
    ELSE Opened(entries, newDocument(entries))

\* Open(templatePath): os.Open fails when no file is there
CompleteInit ==
    \/ OpenFailed([f \in {} |-> <<>>], "unable to open .docx file", {})
    \/ \E entries \in TemplateFiles : OpenOn(entries)

\* doc.WriteToFile(outputPath) once ExecuteTemplate has returned nil
CompleteWrite(outputPath) ==
    /\ pc = "returned"
    /\ err = "none"
    /\ call.op = "none"
    /\ WriteToFileCall(outputPath)

\* the function returns: ExecuteTemplate returned an error, or WriteToFile
\* has returned
Returning ==
    \/ pc = "returned" /\ err # "none"
    \/ pc = "returned" /\ call.op = "WriteToFile"

\* the deferred doc.Close(): d.docxFile.Close()
Close ==
    /\ Returning
    /\ pc' = "closed"
    /\ handles' = handles \ {"docxFile"}
    /\ UNCHANGED <<files, runParsers, data, templatePlaceholders, iter, err, before, log>>
    /\ UNCHANGED <<zipFile, path, headerFiles, footerFiles, mediaFiles, disk, call, ops>>

CompleteNext ==
    \/ \E d \in Contexts, order \in Orders(DOMAIN files) : ExecuteTemplate(d, order)
    \/ ProcessNext
    \/ \E outputPath \in Paths : CompleteWrite(outputPath)
    \/ Close

CompleteSpec == CompleteInit /\ [][CompleteNext]_vars

----------------------------------------------------------------------------
(* Properties of one ExecuteTemplate call *)

\* the placeholder an entry of the log is about
PlaceholderOf(e) == templatePlaceholders[e.index + 1]

\* the placeholder the loop is about to process
Pending == templatePlaceholders[LoopIndex + 1]

\* C1: of two placeholders of the same part, the one with the larger
\* StartPos is processed first, in whatever order the parts were visited.
C1_DescendingStartPos ==
    \A j, k \in 1..Len(log) :
        (j < k /\ PlaceholderOf(log[j]).FileName = PlaceholderOf(log[k]).FileName)
        => StartPos(PlaceholderOf(log[j]).Placeholder)
               > StartPos(PlaceholderOf(log[k]).Placeholder)

\* two placeholders of the document and one of the header are processed,
\* the header having been visited first
C1_Witness ==
    /\ Len(log) >= 3
    /\ templatePlaceholders[1].FileName = HeaderXml
    /\ \E j, k \in 1..Len(log) :
          /\ j < k
          /\ PlaceholderOf(log[j]).FileName = DocumentXml
          /\ PlaceholderOf(log[k]).FileName = DocumentXml
    /\ \E j \in 1..Len(log) : PlaceholderOf(log[j]).FileName = HeaderXml

\* C2: when a placeholder is about to be processed, the bytes of its part
\* at [StartPos, EndPos) are its TemplateContent.
C2_PositionsValidWhenProcessed ==
    pc = "loop" =>
        /\ EndPos(Pending.Placeholder) <= Len(files[Pending.FileName])
        /\ Slice(files[Pending.FileName], StartPos(Pending.Placeholder),
                 EndPos(Pending.Placeholder)) = Pending.TemplateContent

\* the last entry of the log, and its placeholder
LastEntry == log[Len(log)]
LastPlaceholder == PlaceholderOf(LastEntry)

\* C3: a placeholder that resolves to a string r leaves its part as the
\* bytes before StartPos, then r, then the bytes from EndPos on.
C3_SpliceExact ==
    (log # <<>> /\ LastEntry.why = "replace") =>
        /\ LastEntry.kind = "replace"
        /\ files[LastPlaceholder.FileName] =
               Slice(LastEntry.pre[LastPlaceholder.FileName], 0,
                     StartPos(LastPlaceholder.Placeholder))
               \o LastEntry.result
               \o SliceFrom(LastEntry.pre[LastPlaceholder.FileName],
                            EndPos(LastPlaceholder.Placeholder))

\* the sum, over the substituted placeholders of a part among the entries,
\* of len(rendered) - len(token)
RECURSIVE LengthDelta(_, _)
LengthDelta(entries, fileName) ==
    IF entries = <<>> THEN 0
    ELSE (IF Head(entries).kind = "replace"
             /\ PlaceholderOf(Head(entries)).FileName = fileName
          THEN Len(Head(entries).result)
                   - Len(PlaceholderOf(Head(entries)).TemplateContent)
          ELSE 0)
         + LengthDelta(Tail(entries), fileName)

\* ExecuteTemplate has processed every placeholder and returned nil
AllProcessed ==
    /\ pc = "returned"
    /\ err = "none"
    /\ ~data.nil
    /\ Len(log) = Len(templatePlaceholders)

\* C4: once all placeholders are processed, the length of a part is its
\* length before the call plus the sum of len(rendered) - len(token) over
\* the substituted placeholders; the skipped ones add nothing.
C4_LengthAccounting ==
    AllProcessed =>
        \A f \in FileNames :
            Len(files[f]) = Len(before[f]) + LengthDelta(log, f)

\* a part had one placeholder substituted and one skipped, and its length
\* has changed
C4_Witness ==
    /\ AllProcessed
    /\ \E j, k \in 1..Len(log) :
          /\ PlaceholderOf(log[j]).FileName = DocumentXml
          /\ PlaceholderOf(log[k]).FileName = DocumentXml
          /\ log[j].kind = "replace"
          /\ log[k].kind = "skip"
    /\ Len(files[DocumentXml]) # Len(before[DocumentXml])

\* the placeholder is a token whose key the context lacks
MissingKey(ph) ==
    \/ ph.TemplateContent = TokenA /\ KeyA \notin DOMAIN data.map
    \/ ph.TemplateContent = TokenB /\ KeyB \notin DOMAIN data.map

\* the parts as the k-th entry of the log left them
PartsAfter(k) == IF k < Len(log) THEN log[k + 1].pre ELSE files

Referenced(ph) ==
    {k \in {KeyA, KeyB} : Contains(ph.TemplateContent, <<".">> \o k)}

\* the context holds none of the keys the placeholders of the part refer to
NoneReferenced(fileName) ==
    \A i \in 1..Len(templatePlaceholders) :
        templatePlaceholders[i].FileName = fileName
        => Referenced(templatePlaceholders[i]) \cap DOMAIN data.map = {}

RECURSIVE WholeTokens(_, _)
WholeTokens(bytes, i) ==
    IF i >= Len(bytes) THEN TRUE
    ELSE IF HasPrefixAt(bytes, i, TokenA) THEN WholeTokens(bytes, i + Len(TokenA))
    ELSE IF HasPrefixAt(bytes, i, TokenB) THEN WholeTokens(bytes, i + Len(TokenB))
    ELSE bytes[i + 1] \notin {"{", "}"} /\ WholeTokens(bytes, i + 1)

\* the bytes from offset i on, each token whose key is in the context
\* replaced by the value of the key, everything else kept
RECURSIVE Rendered(_, _, _)
Rendered(bytes, i, d) ==
    IF i >= Len(bytes) THEN <<>>
    ELSE IF HasPrefixAt(bytes, i, TokenA)
    THEN (IF KeyA \in DOMAIN d.map THEN d.map[KeyA].str ELSE TokenA)
         \o Rendered(bytes, i + Len(TokenA), d)
    ELSE IF HasPrefixAt(bytes, i, TokenB)
    THEN (IF KeyB \in DOMAIN d.map THEN d.map[KeyB].str ELSE TokenB)
         \o Rendered(bytes, i + Len(TokenB), d)
    ELSE <<bytes[i + 1]>> \o Rendered(bytes, i + 1, d)

\* C7: a part holds {{.a}}, which resolves, and {{ .b}}, which does not:
\* after the call every {{.a}} is replaced by its rendering, every {{ .b}}
\* is as it was, and so is every other byte.
C7_MixedResolution ==
    (/\ pc \in {"returned", "panicked"}
     /\ data = Context({KeyA})
     /\ WholeTokens(before[DocumentXml], 0)
     /\ Contains(before[DocumentXml], TokenA)
     /\ Contains(before[DocumentXml], TokenB))
    => files[DocumentXml] = Rendered(before[DocumentXml], 0, data)

\* the text of a fragment
FragmentText(fragment, docBytes) ==
    Slice(GetText(fragment.Run, docBytes),
          fragment.Position.Start, fragment.Position.End)

\* C8: the token {{.a}} of the header, split over two adjacent runs, is
\* located as one placeholder of two fragments that together are the token.
C8_FragmentedTokenLocated ==
    pc = "loop" =>
        \E i \in 1..Len(templatePlaceholders) :
            /\ templatePlaceholders[i].FileName = HeaderXml
            /\ Len(templatePlaceholders[i].Placeholder.Fragments) = 2
            /\ FragmentText(templatePlaceholders[i].Placeholder.Fragments[1],
                            before[HeaderXml])
               \o FragmentText(templatePlaceholders[i].Placeholder.Fragments[2],
                               before[HeaderXml])
               = TokenA

\* an open marker at offset s with no close marker after it
UnclosedOpenAt(bytes, s) ==
    /\ HasPrefixAt(bytes, s, <<"{", "{">>)
    /\ \A c \in (s + 1)..Len(bytes) : ~HasPrefixAt(bytes, c, <<"}", "}">>)

\* the locator did not return
LocatorPanicked == pc = "panicked" /\ log = <<>>

\* C9: an open marker with no close marker after it in the part makes no
\* placeholder, and the locator returns.
C9_UnclosedOpenIgnored ==
    (pc # "open" /\ ~data.nil) =>
        \A s \in 0..Len(before[DocumentXml]) :
            UnclosedOpenAt(before[DocumentXml], s) =>
                /\ ~LocatorPanicked
                /\ \A i \in 1..Len(templatePlaceholders) :
                      templatePlaceholders[i].FileName = DocumentXml
                      => StartPos(templatePlaceholders[i].Placeholder) # s

\* the run, the text of the run and the position of the one fragment of
\* the i-th placeholder located
RunOf(i) == templatePlaceholders[i].Placeholder.Fragments[1].Run
RunTextOf(i) == GetText(RunOf(i), before[templatePlaceholders[i].FileName])
PositionOf(i) == templatePlaceholders[i].Placeholder.Fragments[1].Position

\* the close marker at offset c of the run of the i-th placeholder ends an
\* earlier placeholder of that run
UsedBefore(i, c) ==
    \E j \in 1..(i - 1) :
        /\ templatePlaceholders[j].FileName = templatePlaceholders[i].FileName
        /\ RunOf(j) = RunOf(i)
        /\ PositionOf(j).End = c + 2

\* C10: every placeholder located starts at an open marker and ends with
\* the nearest close marker after that open marker that no earlier
\* placeholder ends with.
C10_NearestCloseMarker ==
    \A i \in 1..Len(templatePlaceholders) :
        /\ HasPrefixAt(RunTextOf(i), PositionOf(i).Start, <<"{", "{">>)
        /\ PositionOf(i).End - 2 >= PositionOf(i).Start + 2
        /\ HasPrefixAt(RunTextOf(i), PositionOf(i).End - 2, <<"}", "}">>)
        /\ \A c \in (PositionOf(i).Start + 2)..(PositionOf(i).End - 3) :
              HasPrefixAt(RunTextOf(i), c, <<"}", "}">>) => UsedBefore(i, c)

\* C11: with no context (nil data) ExecuteTemplate reports no error and
\* leaves every part as it was.
C11_NilDataSkipsAll ==
    (pc = "returned" /\ data.nil) => (err = "none" /\ files = before)

\* the execution returned an error or its rendering holds "<no value>"
ExecutionFails(exec) == exec.err \/ Contains(exec.out, NoValue)

\* the expression fails to parse, or fails when executed on the context
RenderingFails(tmpl) ==
    ~tmpl.ok \/ ExecutionFails(TmplExecute(tmpl.nodes, data))

\* C12: a placeholder whose expression fails to parse or to execute, or
\* whose rendering holds "<no value>", leaves every part as it was.
C12_FailedRenderingNotWritten ==
    \A k \in 1..Len(log) :
        RenderingFails(TmplParse(PlaceholderOf(log[k]).TemplateContent))
        => PartsAfter(k) = log[k].pre

\* a rendering that holds the value of a and "<no value>" was not written,
\* and neither was anything for the placeholder that failed to parse
C12_Witness ==
    \E j, k \in 1..Len(log) :
        /\ log[j].why = "novalue"
        /\ Contains(log[j].result, ValueA)
        /\ PartsAfter(j) = log[j].pre
        /\ log[k].why = "parse"
        /\ files = log[k].pre

\* C19: the token opened by two U+201C and closed by two U+201D is located
\* as one placeholder whose span is the bytes of the token.
C19_QuoteTokenSpan ==
    pc = "loop" =>
        \E i \in 1..Len(templatePlaceholders) :
            /\ templatePlaceholders[i].FileName = HeaderXml
            /\ FragmentText(templatePlaceholders[i].Placeholder.Fragments[1],
                            before[HeaderXml]) = TokenQ

\* C20: {{.u.n}}, where the context maps u to a map that holds n, is
\* replaced by the value of n.
C20_NestedFieldSubstituted ==
    \A k \in 1..Len(log) :
        (PlaceholderOf(log[k]).TemplateContent = TokenN /\ KeyU \in DOMAIN data.map)
        => (log[k].kind = "replace" /\ log[k].result = ValueN)

\* the offset after the close marker that ends the token whose text begins
\* at offset j, or -1 when a brace comes before the close marker
RECURSIVE TokenEnd(_, _)
TokenEnd(text, j) ==
    IF j >= Len(text) THEN -1
    ELSE IF HasPrefixAt(text, j, <<"}", "}">>) THEN j + 2
    ELSE IF text[j + 1] \in {"{", "}"} THEN -1
    ELSE TokenEnd(text, j + 1)

\* the tokens of the text from offset i on, in order, each as the offsets
\* it spans; ok is FALSE when a brace of the text is not part of a token
RECURSIVE TokensFrom(_, _)
RECURSIVE TokenThen(_, _, _)
TokensFrom(text, i) ==
    IF i >= Len(text) THEN [ok |-> TRUE, list |-> <<>>]
    ELSE IF HasPrefixAt(text, i, <<"{", "{">>)
    THEN TokenThen(text, i, TokenEnd(text, i + 2))
    ELSE IF text[i + 1] \in {"{", "}"} THEN [ok |-> FALSE, list |-> <<>>]
    ELSE TokensFrom(text, i + 1)

TokenThen(text, i, e) ==
    IF e < 0 THEN [ok |-> FALSE, list |-> <<>>]
    ELSE [ok |-> TokensFrom(text, e).ok,
          list |-> <<Position(i, e)>> \o TokensFrom(text, e).list]

\* the placeholders located in a run of the document
LocatedIn(run) ==
    SelectSeq(templatePlaceholders,
              LAMBDA p : p.FileName = DocumentXml
                         /\ p.Placeholder.Fragments[1].Run = run)

\* the placeholders are those of the tokens, in the order of the tokens
TokenForToken(located, text, tokens) ==
    /\ Len(located) = Len(tokens)
    /\ \A k \in 1..Len(tokens) :
          /\ located[k].TemplateContent = Slice(text, tokens[k].Start, tokens[k].End)
          /\ located[k].Key = Slice(text, tokens[k].Start + 2, tokens[k].End - 2)
          /\ located[k].FileName = DocumentXml
          /\ Len(located[k].Placeholder.Fragments) = 1

\* the locator returned the placeholders of the parts
Located == pc \in {"loop", "returned"} /\ ~data.nil

\* C23: for a run of the document whose text holds well-formed tokens that
\* are not nested, the locator returns one placeholder for each token, in
\* the order of the tokens, whose TemplateContent is the token, whose Key is
\* the text between the markers and whose FileName is the name of the part.
C23_PlaceholderPerToken ==
    Located =>
        \A r \in 1..Len(WithText(runParsers[DocumentXml])) :
            TokensFrom(GetText(WithText(runParsers[DocumentXml])[r],
                               before[DocumentXml]), 0).ok
            => TokenForToken(
                   LocatedIn(WithText(runParsers[DocumentXml])[r]),
                   GetText(WithText(runParsers[DocumentXml])[r], before[DocumentXml]),
                   TokensFrom(GetText(WithText(runParsers[DocumentXml])[r],
                                      before[DocumentXml]), 0).list)

\* C24: when ExecuteTemplate returns an error of a placeholder, every part
\* has the bytes it had before the call.
C24_ErrorLeavesPartsAsBefore ==
    (pc = "returned" /\ ~data.nil /\ err # "none") => files = before

\* C27: the locator returns for every text of a run, and every fragment it
\* returns lies in the text of its run and spans at least the two markers.
C27_FragmentsInsideRunText ==
    /\ ~LocatorPanicked
    /\ \A i \in 1..Len(templatePlaceholders) :
          /\ 0 <= PositionOf(i).Start
          /\ PositionOf(i).Start + 4 <= PositionOf(i).End
          /\ PositionOf(i).End <= Len(RunTextOf(i))

\* C28: of two placeholders located in one part, the one that starts
\* first ends at or before the start of the other.
C28_PlaceholdersDisjoint ==
    \A i, j \in 1..Len(templatePlaceholders) :
        (/\ i # j
         /\ templatePlaceholders[i].FileName = templatePlaceholders[j].FileName
         /\ StartPos(templatePlaceholders[i].Placeholder)
                <= StartPos(templatePlaceholders[j].Placeholder))
        => EndPos(templatePlaceholders[i].Placeholder)
               <= StartPos(templatePlaceholders[j].Placeholder)

\* the bytes at the offset are an open marker, or a close marker
OpenMarkerAt(bytes, i) ==
    HasPrefixAt(bytes, i, <<"{", "{">>) \/ HasPrefixAt(bytes, i, LeftQuote \o LeftQuote)
CloseMarkerBefore(bytes, i) ==
    \/ i >= 2 /\ HasPrefixAt(bytes, i - 2, <<"}", "}">>)
    \/ i >= 6 /\ HasPrefixAt(bytes, i - 6, RightQuote \o RightQuote)

\* C29: StartPos of a placeholder located is the offset, in the bytes of
\* its part, of the first byte of an open marker, and EndPos the offset of
\* the byte after a close marker.
C29_PositionsAreByteOffsets ==
    \A i \in 1..Len(templatePlaceholders) :
        /\ OpenMarkerAt(before[templatePlaceholders[i].FileName],
                        StartPos(templatePlaceholders[i].Placeholder))
        /\ CloseMarkerBefore(before[templatePlaceholders[i].FileName],
                             EndPos(templatePlaceholders[i].Placeholder))

\* C25: in a session, every ExecuteTemplate call gets the placeholders of
\* the parts as they are when it is made, and every placeholder it
\* replaces spans, in the bytes of its part at that moment, the token it
\* was located as.
C25_PositionsValidInSession ==
    /\ pc # "panicked"
    /\ \A k \in 1..Len(log) :
          log[k].kind = "replace" =>
              Slice(log[k].pre[PlaceholderOf(log[k]).FileName],
                    StartPos(PlaceholderOf(log[k]).Placeholder),
                    EndPos(PlaceholderOf(log[k]).Placeholder))
              = PlaceholderOf(log[k]).TemplateContent

\* the text of the runs of a part, one after the other
RunsText(docBytes) ==
    Flatten([i \in 1..Len(NewRunParser(docBytes)) |->
                GetText(NewRunParser(docBytes)[i], docBytes)])

\* the tokens of the bytes that the context resolves
Resolvable ==
    {t \in {TokenA, TokenB, TokenN} :
        \/ t = TokenA /\ KeyA \in DOMAIN data.map
        \/ t = TokenB /\ KeyB \in DOMAIN data.map
        \/ t = TokenN /\ KeyU \in DOMAIN data.map}

\* the entries are those of the template, and the text of the runs of the
\* document and of the header holds no token that the context resolves
Complete(entries) ==
    /\ Len(entries) = Len(zipFile)
    /\ \A i \in 1..Len(entries) :
          /\ entries[i].Name = zipFile[i].Name
          /\ entries[i].Name \in FileNames
             => \A t \in Resolvable : ~Contains(RunsText(entries[i].Bytes), t)

\* the files on disk are those there were when the template was opened
NothingCreated ==
    /\ DOMAIN disk \subseteq {SourcePath}
    /\ \A f \in DOMAIN disk : pc # "failed" => disk[f] = zipFile

\* C22: when CompleteTemplateToFile has returned, either it returned nil
\* and the output file holds every entry of the template with each token
\* the context resolves replaced, or it returned an error and no file was
\* created or written.
C22_OutputCompleteOrAbsent ==
    pc \in {"failed", "closed"} =>
        IF err = "none"
        THEN /\ FileOf(call.file) \in DOMAIN disk
             /\ Complete(disk[FileOf(call.file)])
        ELSE NothingCreated

\* C30: once Open has failed, or Close has run after an Open that
\* succeeded, no handle that Open acquired is open.
C30_HandlesReleased ==
    pc \in {"failed", "closed"} => handles = {}

----------------------------------------------------------------------------
(* Properties of the store *)

\* the entries of the archive whose name is, or is not, in the store
TrackedEntries == {i \in 1..Len(zipFile) : zipFile[i].Name \in DOMAIN files}
OtherEntries == {i \in 1..Len(zipFile) : zipFile[i].Name \notin DOMAIN files}

C14_SetFileRegisteredOnly ==
    call.op = "SetFile" =>
        IF call.name \in DOMAIN before
        THEN /\ err = "none"
             /\ DOMAIN files = DOMAIN before
             /\ GetFile(files, call.name) = call.bytes
             /\ \A n \in DOMAIN before \ {call.name} : files[n] = before[n]
        ELSE /\ err = "unregistered file"
             /\ files = before

\* a SetFile on a name that is not in the store, after a SetFile that gave
\* the document other bytes
C14_Witness ==
    /\ call.op = "SetFile"
    /\ ops = 2
    /\ call.name = StylesXml
    /\ call.name \notin DOMAIN before
    /\ err = "unregistered file"
    /\ \E i \in 1..Len(zipFile) :
          /\ zipFile[i].Name = DocumentXml
          /\ GetFile(files, DocumentXml) # zipFile[i].Bytes
          /\ GetFile(files, DocumentXml) \in NewBytes

\* the name is the stem, then digits only, then .xml
NumberedName(name, stem) ==
    /\ HasPrefixAt(name, 0, stem)
    /\ Len(name) >= Len(stem) + 4
    /\ SliceFrom(name, Len(name) - 4) = <<".", "x", "m", "l">>
    /\ \A i \in (Len(stem) + 1)..(Len(name) - 4) : name[i] \in Digits

\* C15: after Open, an entry of the archive is in the store exactly when
\* its name is word/document.xml, or word/header or word/footer followed by
\* digits and .xml, or begins with word/media/.
C15_TrackedByNamePattern ==
    \A i \in 1..Len(zipFile) :
        zipFile[i].Name \in DOMAIN files
        <=> \/ zipFile[i].Name = DocumentXml
            \/ NumberedName(zipFile[i].Name, <<"w", "o", "r", "d", "/", "h", "e", "a", "d", "e", "r">>)
            \/ NumberedName(zipFile[i].Name, <<"w", "o", "r", "d", "/", "f", "o", "o", "t", "e", "r">>)
            \/ HasPrefixAt(zipFile[i].Name, 0, <<"w", "o", "r", "d", "/", "m", "e", "d", "i", "a", "/">>)

\* C16: WriteToFile with a path of the file the archive was opened from
\* returns an error and leaves the files on disk as they were.
C16_SourceNeverWritten ==
    (call.op = "WriteToFile" /\ FileOf(call.file) = FileOf(path)) =>
        (err # "none" /\ disk = call.disk)

\* one pass over the bytes: each token {k} with k a key of the map becomes
\* the value of k, every other byte stays
RECURSIVE TokensReplaced(_, _, _)
TokensReplaced(s, i, replaceMap) ==
    IF i >= Len(s) THEN <<>>
    ELSE IF \E k \in DOMAIN replaceMap : HasPrefixAt(s, i, <<"{">> \o k \o <<"}">>)
    THEN replaceMap[CHOOSE k \in DOMAIN replaceMap :
                        HasPrefixAt(s, i, <<"{">> \o k \o <<"}">>)]
         \o TokensReplaced(s, i + 3, replaceMap)
    ELSE <<s[i + 1]>> \o TokensReplaced(s, i + 1, replaceMap)

\* C17: ReplaceAll returns no error and leaves every part with each token
\* {k}, k a key of the map, replaced by the value of k and all other bytes
\* as they were; with the empty map every part is as it was.
C17_EveryTokenReplacedByItsValue ==
    call.op = "ReplaceAll" =>
        /\ err = "none"
        /\ \A n \in DOMAIN files : files[n] = TokensReplaced(before[n], 0, call.map)

\* C18: a token {a} whose characters are split over adjacent runs is
\* replaced by ReplaceAll when a is a key of the map.
C18_SplitTokenReplaced ==
    (/\ call.op = "ReplaceAll"
     /\ KeyA \in DOMAIN call.map
     /\ HeaderXml \in DOMAIN files
     /\ Contains(RunsText(before[HeaderXml]), <<"{", "a", "}">>))
    => ~Contains(RunsText(files[HeaderXml]), <<"{", "a", "}">>)

\* the names in the store that begin with word/media/
MediaParts ==
    {n \in DOMAIN files :
        HasPrefixAt(n, 0, <<"w", "o", "r", "d", "/", "m", "e", "d", "i", "a", "/">>)}

\* C21: a call other than SetFile leaves every part under word/media/ with
\* the bytes it had before the call.
C21_MediaPartsKept ==
    call.op \in {"ReplaceAll", "Write", "WriteToFile"} =>
        \A n \in MediaParts : files[n] = before[n]

\* C26: the bytes ReplaceAll leaves in a part are those every order of
\* visiting the keys of the map gives.
C26_ReplaceAllOrderFree ==
    call.op = "ReplaceAll" =>
        \A n \in DOMAIN files :
            \A order \in Orders(DOMAIN call.map) :
                files[n] = replacePlaceholdersInFile(before[n], call.map, order)

====
